---- MODULE Spec2Model ----
(***************************************************************************)
(* State-machine model of the learn_wgpu application shell:                *)
(*   src/src/lib.rs      SDL_main  (entry point of the deferred-init build) *)
(*   src/src/main.rs     main      (entry point of the builder build)       *)
(*   src/src/app/mod.rs  XApp      (new, init, run, render and helpers)     *)
(* Option<T> is modelled as a sequence of length 0 (None) or 1 (Some).     *)
(* External library calls (SDL2, wgpu) succeed or fail nondeterministically.*)
(***************************************************************************)
EXTENDS Integers, Sequences, FiniteSets, TLC

\* ---------------------------------------------------------------- bounds
MaxFormats == 2   \* longest list of supported surface formats
MaxEvents  == 3   \* events delivered to the event pump in one execution
MaxFrames  == 2   \* render calls in one execution

\* ------------------------------------------------------- Option / Result
None == <<>>
Some(x) == <<x>>
unwrap(o) == o[1]

NoResult == "NoResult"
Ok == "Ok"
UnwrapPanic == "called Option::unwrap() on a None value"
WgpuPanic == "wgpu panicked"
IsPanic(r) == r \in {UnwrapPanic, WgpuPanic}
IsErr(r) == r \notin {NoResult, Ok, UnwrapPanic, WgpuPanic}

\* ---------------------------------------------------------- input domains
Formats == {"Bgra8Unorm", "Bgra8UnormSrgb", "Rgba8Unorm", "Rgba8UnormSrgb"}

is_srgb(f) == f \in {"Bgra8UnormSrgb", "Rgba8UnormSrgb"}

FormatLists == UNION {[1..n -> Formats] : n \in 0..MaxFormats}

WindowSizes == {<<8, 6>>, <<6, 8>>}

Events == {"Quit", "KeyDownEscape", "AppWillEnterForeground", "Other"}

EntryPoints == {"SDL_main", "main"}

VARIABLES
    android,              \* cfg(target_os = "android")
    debug,                \* cfg(debug_assertions)
    entry,                \* which entry point the binary was built from
    pc,                   \* position of the single control thread
    event_pump, window, window_width, window_height,
    wgpu_intance, surface, surface_format, device, queue, config, pipeline,
    adapter,              \* local of init
    surface_capabilities, \* local of init: the reported format list
    executed,             \* setup steps init has executed, with their outcome
    init_result, run_result, exit_code,
    pending,              \* events waiting in the SDL event queue
    processed,            \* events the frame loop has matched on
    frames,               \* number of render calls made
    gpu_calls,            \* wgpu calls made by the latest render call
    render_result,        \* result of the latest render call
    surfaces_created      \* identity source for Surface objects

build   == <<android, debug, entry>>
fields  == <<event_pump, window, window_width, window_height, wgpu_intance,
             surface, surface_format, device, queue, config, pipeline>>
locals  == <<adapter, surface_capabilities>>
results == <<init_result, run_result, exit_code>>
evq     == <<pending, processed>>
gpu     == <<frames, gpu_calls, render_result>>
vars    == <<build, pc, fields, locals, executed, results, evq, gpu,
             surfaces_created>>

\* ------------------------------------------------------------- XApp::new
Init ==
    /\ android \in BOOLEAN
    /\ debug \in BOOLEAN
    /\ entry \in EntryPoints
    /\ pc = "start"
    /\ event_pump = None
    /\ window = None
    /\ window_width = 0
    /\ window_height = 0
    /\ wgpu_intance = None
    /\ surface = None
    /\ surface_format = None
    /\ device = None
    /\ queue = None
    /\ config = None
    /\ pipeline = None
    /\ adapter = None
    /\ surface_capabilities = None
    /\ executed = <<>>
    /\ init_result = NoResult
    /\ run_result = NoResult
    /\ exit_code = None
    /\ pending = <<>>
    /\ processed = <<>>
    /\ frames = 0
    /\ gpu_calls = <<>>
    /\ render_result = NoResult
    /\ surfaces_created = 0

\* ------------------------------------------------------ helpers of init
Step(name, ok) == [step |-> name, ok |-> ok]

\* `?` on an Err: init returns the error, its locals are dropped
InitReturn(r) ==
    /\ init_result' = r
    /\ pc' = "init_returned"
    /\ adapter' = None
    /\ surface_capabilities' = None

\* fn init_surface: the surface it produces, and the Result it returns
init_surface(win, cur, created, id) ==
    IF win = None
    THEN [result |-> "Window is empty", surface |-> cur]
    ELSE IF ~created
         THEN [result |-> "create_surface failed", surface |-> cur]
         ELSE [result |-> Ok,
               surface |-> Some([id |-> id, configured |-> FALSE])]

\* formats.iter().copied().find(|f| f.is_srgb())
RECURSIVE find_srgb(_)
find_srgb(fs) ==
    IF fs = <<>> THEN None
    ELSE IF is_srgb(Head(fs)) THEN Some(Head(fs))
    ELSE find_srgb(Tail(fs))

unwrap_or(o, default) == IF o = None THEN default ELSE unwrap(o)

\* variant of select_format: the sRGB search is dropped
select_format_first_only(fs) == fs[1]

\* lines 105-110; formats[0] is evaluated before unwrap_or is entered
select_format(fs) == unwrap_or(find_srgb(fs), fs[1])

\* fn create_config
create_config(fmt, w, h) ==
    IF fmt = None
    THEN [result |-> "Surface format is empty", config |-> None]
    ELSE [result |-> Ok,
          config |-> Some([usage |-> "RENDER_ATTACHMENT",
                           format |-> unwrap(fmt),
                           width |-> w, height |-> h,
                           present_mode |-> "Fifo",
                           alpha_mode |-> "Auto"])]

\* fn configure_surface
configure_surface(cfg, dev, surf) ==
    IF cfg = None
    THEN [result |-> "Config field is empty", surface |-> surf]
    ELSE IF dev = None
    THEN [result |-> "Device field is empty", surface |-> surf]
    ELSE IF surf = None
    THEN [result |-> "Surface field is empty", surface |-> surf]
    ELSE [result |-> Ok,
          surface |-> Some([unwrap(surf) EXCEPT !.configured = TRUE])]

\* fn init_pipeline
init_pipeline(dev, fmt) ==
    IF dev = None
    THEN [result |-> "Device of XApp is empty", pipeline |-> None]
    ELSE [result |-> Ok,
          pipeline |-> Some([format |-> unwrap(fmt),
                             topology |-> "TriangleList"])]

\* ------------------------------------------------------------ XApp::init
\* SDL_main calls init on the freshly constructed XApp
InitSdl ==
    /\ pc = "start" /\ entry = "SDL_main"
    /\ \E ok \in BOOLEAN :
        /\ executed' = Append(executed, Step("sdl2::init", ok))
        /\ IF ok
           THEN /\ pc' = "video"
                /\ UNCHANGED <<init_result, locals>>
           ELSE InitReturn("sdl2::init failed")
    /\ UNCHANGED <<build, fields, run_result, exit_code, evq, gpu,
                   surfaces_created>>

InitVideo ==
    /\ pc = "video"
    /\ \E ok \in BOOLEAN :
        /\ executed' = Append(executed, Step("video", ok))
        /\ IF ok
           THEN /\ pc' = "event_pump"
                /\ UNCHANGED <<init_result, locals>>
           ELSE InitReturn("video subsystem failed")
    /\ UNCHANGED <<build, fields, run_result, exit_code, evq, gpu,
                   surfaces_created>>

InitEventPump ==
    /\ pc = "event_pump"
    /\ \E ok \in BOOLEAN :
        /\ executed' = Append(executed, Step("event_pump", ok))
        /\ IF ok
           THEN /\ event_pump' = Some("EventPump")
                /\ pc' = "window"
                /\ UNCHANGED <<init_result, locals>>
           ELSE /\ InitReturn("event pump failed")
                /\ UNCHANGED event_pump
    /\ UNCHANGED <<build, window, window_width, window_height, wgpu_intance,
                   surface, surface_format, device, queue, config, pipeline,
                   run_result, exit_code, evq, gpu, surfaces_created>>

InitWindow ==
    /\ pc = "window"
    /\ \E ok \in BOOLEAN, size \in WindowSizes :
        /\ executed' = Append(executed, Step("window", ok))
        /\ IF ok
           THEN /\ window_width' = size[1]
                /\ window_height' = size[2]
                /\ window' = Some("Window")
                /\ pc' = "init_surface"
                /\ UNCHANGED <<init_result, locals>>
           ELSE /\ InitReturn("window build failed")
                /\ UNCHANGED <<window, window_width, window_height>>
    /\ UNCHANGED <<build, event_pump, wgpu_intance, surface, surface_format,
                   device, queue, config, pipeline, run_result, exit_code,
                   evq, gpu, surfaces_created>>

\* lines 87-94: the instance is created and init_surface is called; the
\* Result of init_surface is not inspected
InitSurface ==
    /\ pc = "init_surface"
    /\ \E created \in BOOLEAN :
        LET r == init_surface(window, surface, created, surfaces_created + 1)
        IN /\ executed' = Append(executed, Step("init_surface", r.result = Ok))
           /\ surface' = r.surface
           /\ surfaces_created' =
                 IF r.result = Ok THEN surfaces_created + 1
                 ELSE surfaces_created
    /\ pc' = "get_adapter"
    /\ UNCHANGED <<build, event_pump, window, window_width, window_height,
                   wgpu_intance, surface_format, device, queue, config,
                   pipeline, locals, results, evq, gpu>>

\* lines 96-101
InitAdapter ==
    /\ pc = "get_adapter"
    /\ \E ok \in BOOLEAN :
        /\ executed' = Append(executed, Step("get_adapter", ok))
        /\ IF ok
           THEN /\ adapter' = Some("Adapter")
                /\ wgpu_intance' =
                      IF android THEN Some("Instance") ELSE wgpu_intance
                /\ pc' = "get_surface_capability"
                /\ UNCHANGED <<init_result, surface_capabilities>>
           ELSE /\ InitReturn("Cannot get adapter")
                /\ UNCHANGED wgpu_intance
    /\ UNCHANGED <<build, event_pump, window, window_width, window_height,
                   surface, surface_format, device, queue, config, pipeline,
                   run_result, exit_code, evq, gpu, surfaces_created>>

\* line 104 and fn get_surface_capability
InitCapability ==
    /\ pc = "get_surface_capability"
    /\ IF surface = None
       THEN /\ executed' = Append(executed,
                                  Step("get_surface_capability", FALSE))
            /\ InitReturn("Surface is empty")
       ELSE /\ executed' = Append(executed,
                                  Step("get_surface_capability", TRUE))
            /\ \E fs \in FormatLists : surface_capabilities' = Some(fs)
            /\ pc' = "select_format"
            /\ UNCHANGED <<init_result, adapter>>
    /\ UNCHANGED <<build, fields, run_result, exit_code, evq, gpu,
                   surfaces_created>>

\* lines 105-111; indexing an empty format list panics
InitSelectFormat ==
    /\ pc = "select_format"
    /\ LET fs == unwrap(surface_capabilities)
       IN IF fs = <<>>
          THEN /\ executed' = Append(executed, Step("select_format", FALSE))
               /\ pc' = "panicked"
               /\ UNCHANGED surface_format
          ELSE /\ executed' = Append(executed, Step("select_format", TRUE))
               /\ surface_format' = Some(select_format(fs))
               /\ pc' = "get_device_and_queue"
    /\ UNCHANGED <<build, event_pump, window, window_width, window_height,
                   wgpu_intance, surface, device, queue, config, pipeline,
                   locals, results, evq, gpu, surfaces_created>>

\* variant of InitDevice: the Result of get_device_and_queue is dropped
\* the way the Result of init_surface is
InitDevice_result_dropped ==
    /\ pc = "get_device_and_queue"
    /\ \E ok \in BOOLEAN :
        /\ executed' = Append(executed, Step("get_device_and_queue", ok))
        /\ IF ok
           THEN /\ device' = Some("Device")
                /\ queue' = Some("Queue")
           ELSE UNCHANGED <<device, queue>>
    /\ pc' = "create_config"
    /\ UNCHANGED <<build, event_pump, window, window_width, window_height,
                   wgpu_intance, surface, surface_format, config, pipeline,
                   locals, results, evq, gpu, surfaces_created>>

\* line 113 and fn get_device_and_queue
InitDevice ==
    /\ pc = "get_device_and_queue"
    /\ \E ok \in BOOLEAN :
        /\ executed' = Append(executed, Step("get_device_and_queue", ok))
        /\ IF ok
           THEN /\ device' = Some("Device")
                /\ queue' = Some("Queue")
                /\ pc' = "create_config"
                /\ UNCHANGED <<init_result, locals>>
           ELSE /\ InitReturn("request_device failed")
                /\ UNCHANGED <<device, queue>>
    /\ UNCHANGED <<build, event_pump, window, window_width, window_height,
                   wgpu_intance, surface, surface_format, config, pipeline,
                   run_result, exit_code, evq, gpu, surfaces_created>>

\* lines 116-117
InitConfig ==
    /\ pc = "create_config"
    /\ LET r == create_config(surface_format, window_width, window_height)
       IN /\ executed' = Append(executed, Step("create_config", r.result = Ok))
          /\ IF r.result = Ok
             THEN /\ config' = r.config
                  /\ pc' = "configure_surface"
                  /\ UNCHANGED <<init_result, locals>>
             ELSE /\ InitReturn(r.result)
                  /\ UNCHANGED config
    /\ UNCHANGED <<build, event_pump, window, window_width, window_height,
                   wgpu_intance, surface, surface_format, device, queue,
                   pipeline, run_result, exit_code, evq, gpu,
                   surfaces_created>>

\* line 119
InitConfigure ==
    /\ pc = "configure_surface"
    /\ LET r == configure_surface(config, device, surface)
       IN /\ executed' = Append(executed,
                                Step("configure_surface", r.result = Ok))
          /\ surface' = r.surface
          /\ IF r.result = Ok
             THEN /\ pc' = "init_pipeline"
                  /\ UNCHANGED <<init_result, locals>>
             ELSE InitReturn(r.result)
    /\ UNCHANGED <<build, event_pump, window, window_width, window_height,
                   wgpu_intance, surface_format, device, queue, config,
                   pipeline, run_result, exit_code, evq, gpu,
                   surfaces_created>>

\* variant of InitPipeline: the pipeline is built but not stored
InitPipeline_not_stored ==
    /\ pc = "init_pipeline"
    /\ LET r == init_pipeline(device, surface_format)
       IN /\ executed' = Append(executed, Step("init_pipeline", r.result = Ok))
          /\ InitReturn(r.result)
    /\ UNCHANGED <<build, fields, run_result, exit_code, evq, gpu,
                   surfaces_created>>

\* lines 121-122
InitPipeline ==
    /\ pc = "init_pipeline"
    /\ LET r == init_pipeline(device, surface_format)
       IN /\ executed' = Append(executed, Step("init_pipeline", r.result = Ok))
          /\ pipeline' = r.pipeline
          /\ InitReturn(r.result)
    /\ UNCHANGED <<build, event_pump, window, window_width, window_height,
                   wgpu_intance, surface, surface_format, device, queue,
                   config, run_result, exit_code, evq, gpu, surfaces_created>>

\* --------------------------------------------------- SDL_main (lib.rs)
\* variant of SdlMainAfterInit: the init error is logged, run is called
\* all the same
SdlMainAfterInit_no_return ==
    /\ pc = "init_returned"
    /\ pc' = "run"
    /\ UNCHANGED <<build, fields, locals, executed, results, evq, gpu,
                   surfaces_created>>

\* lines 11-14: an init error is logged and 1 is returned; otherwise run
SdlMainAfterInit ==
    /\ pc = "init_returned"
    /\ IF IsErr(init_result)
       THEN /\ exit_code' = Some(1)
            /\ pc' = "exited"
       ELSE /\ pc' = "run"
            /\ UNCHANGED exit_code
    /\ UNCHANGED <<build, fields, locals, executed, init_result, run_result,
                   evq, gpu, surfaces_created>>

\* lines 16-21: a run error is logged and 2 is returned; otherwise 0
SdlMainAfterRun ==
    /\ pc = "run_returned"
    /\ exit_code' = IF IsErr(run_result) THEN Some(2) ELSE Some(0)
    /\ pc' = "exited"
    /\ UNCHANGED <<build, fields, locals, executed, init_result, run_result,
                   evq, gpu, surfaces_created>>

\* ------------------------------------------------------- main (main.rs)
\* lines 9-15: XApp::new(title) of the builder variant returns a Result
MainNew ==
    /\ pc = "start" /\ entry = "main"
    /\ \E ok \in BOOLEAN :
        IF ok
        THEN /\ init_result' = Ok
             /\ pc' = "main_run"
             /\ UNCHANGED exit_code
        ELSE /\ init_result' = "XApp::new failed"
             /\ exit_code' = Some(1)
             /\ pc' = "exited"
    /\ UNCHANGED <<build, fields, locals, executed, run_result, evq, gpu,
                   surfaces_created>>

\* lines 17-21: exit(2) on a run error; falling off main exits with 0
MainRun ==
    /\ pc = "main_run"
    /\ \E ok \in BOOLEAN :
        IF ok
        THEN /\ run_result' = Ok
             /\ exit_code' = Some(0)
        ELSE /\ run_result' = "run failed"
             /\ exit_code' = Some(2)
    /\ pc' = "exited"
    /\ UNCHANGED <<build, fields, locals, executed, init_result, evq, gpu,
                   surfaces_created>>

\* ------------------------------------------------------------- XApp::run
RunReturn(r) ==
    /\ run_result' = r
    /\ pc' = "run_returned"

\* lines 126-136
RunStart ==
    /\ pc = "run"
    /\ IF event_pump = None
       THEN RunReturn("Event pum is None")
       ELSE /\ pc' = "poll"
            /\ UNCHANGED run_result
    /\ UNCHANGED <<build, fields, locals, executed, init_result, exit_code,
                   evq, gpu, surfaces_created>>

\* the platform queues an event; SDL's queue exists once SDL is initialised
Deliver ==
    /\ event_pump # None
    /\ pc \notin {"exited", "panicked"}
    /\ Len(pending) + Len(processed) < MaxEvents
    /\ \E e \in Events : pending' = Append(pending, e)
    /\ UNCHANGED <<build, pc, fields, locals, executed, results, processed,
                   gpu, surfaces_created>>

\* poll_iter yields the next queued event
Polled(e) ==
    /\ pc = "poll"
    /\ pending # <<>>
    /\ Head(pending) = e
    /\ pending' = Tail(pending)
    /\ processed' = Append(processed, e)

\* variant of HandleQuit: the quit arm logs and does not break
HandleQuit_no_break ==
    /\ Polled("Quit")
    /\ UNCHANGED <<build, pc, fields, locals, executed, results, gpu,
                   surfaces_created>>

\* lines 141-147
HandleQuit ==
    /\ Polled("Quit")
    /\ RunReturn(Ok)
    /\ UNCHANGED <<build, fields, locals, executed, init_result, exit_code,
                   gpu, surfaces_created>>

\* variant of HandleEscape: the break is compiled for every build
HandleEscape_always_breaks ==
    /\ Polled("KeyDownEscape")
    /\ RunReturn(Ok)
    /\ UNCHANGED <<build, fields, locals, executed, init_result, exit_code,
                   gpu, surfaces_created>>

\* lines 148-161: the break is compiled only for non-android debug builds
HandleEscape ==
    /\ Polled("KeyDownEscape")
    /\ IF ~android /\ debug
       THEN RunReturn(Ok)
       ELSE UNCHANGED <<pc, run_result>>
    /\ UNCHANGED <<build, fields, locals, executed, init_result, exit_code,
                   gpu, surfaces_created>>

\* variant of HandleForeground: the re-created surface is not stored
HandleForeground_surface_not_stored ==
    /\ Polled("AppWillEnterForeground")
    /\ IF ~android
       THEN UNCHANGED <<pc, run_result, surfaces_created>>
       ELSE IF wgpu_intance = None
       THEN /\ RunReturn("WGPU intance is empty")
            /\ UNCHANGED surfaces_created
       ELSE \E created \in BOOLEAN :
            LET r == init_surface(window, surface, created,
                                  surfaces_created + 1)
            IN IF r.result = Ok
               THEN /\ surfaces_created' = surfaces_created + 1
                    /\ UNCHANGED <<pc, run_result>>
               ELSE /\ RunReturn(r.result)
                    /\ UNCHANGED surfaces_created
    /\ UNCHANGED <<build, fields, locals, executed, init_result, exit_code,
                   gpu>>

\* lines 163-183: the body is compiled only for android
HandleForeground ==
    /\ Polled("AppWillEnterForeground")
    /\ IF ~android
       THEN UNCHANGED <<pc, run_result, surface, surfaces_created>>
       ELSE IF wgpu_intance = None
       THEN /\ RunReturn("WGPU intance is empty")
            /\ UNCHANGED <<surface, surfaces_created>>
       ELSE \E created \in BOOLEAN :
            LET r == init_surface(window, surface, created,
                                  surfaces_created + 1)
            IN /\ surface' = r.surface
               /\ IF r.result = Ok
                  THEN /\ surfaces_created' = surfaces_created + 1
                       /\ UNCHANGED <<pc, run_result>>
                  ELSE /\ RunReturn(r.result)
                       /\ UNCHANGED surfaces_created
    /\ UNCHANGED <<build, event_pump, window, window_width, window_height,
                   wgpu_intance, surface_format, device, queue, config,
                   pipeline, locals, executed, init_result, exit_code, gpu>>

\* lines 184-187
HandleOther ==
    /\ Polled("Other")
    /\ UNCHANGED <<build, pc, fields, locals, executed, results, gpu,
                   surfaces_created>>

\* ---------------------------------------------------------- XApp::render

\* what get_current_texture can do: an unconfigured surface has no image
\* to hand out, wgpu either reports an error or panics
AcquireOutcomes(surf) ==
    IF surf # None /\ unwrap(surf).configured
    THEN {Ok, "get_current_texture failed"}
    ELSE {"get_current_texture failed", WgpuPanic}

\* variant of render: the image is presented before the commands are
\* submitted
render_present_first(surf, dev, q, pipe, acquire) ==
    IF surf = None
    THEN [result |-> UnwrapPanic, calls |-> <<>>]
    ELSE IF acquire # Ok
    THEN [result |-> acquire, calls |-> <<"get_current_texture">>]
    ELSE IF dev = None \/ pipe = None \/ q = None
    THEN [result |-> UnwrapPanic, calls |-> <<"get_current_texture">>]
    ELSE [result |-> Ok,
          calls |-> <<"get_current_texture", "create_view",
                      "create_command_encoder", "begin_render_pass",
                      "set_pipeline", "draw", "finish", "present",
                      "submit">>]

\* fn render: its Result (or a panic) and the wgpu calls it made, in order
render(surf, dev, q, pipe, acquire) ==
    IF surf = None
    THEN [result |-> UnwrapPanic, calls |-> <<>>]
    ELSE IF acquire # Ok
    THEN [result |-> acquire, calls |-> <<"get_current_texture">>]
    ELSE IF dev = None
    THEN [result |-> UnwrapPanic,
          calls |-> <<"get_current_texture", "create_view">>]
    ELSE IF pipe = None
    THEN [result |-> UnwrapPanic,
          calls |-> <<"get_current_texture", "create_view",
                      "create_command_encoder", "begin_render_pass">>]
    ELSE IF q = None
    THEN [result |-> UnwrapPanic,
          calls |-> <<"get_current_texture", "create_view",
                      "create_command_encoder", "begin_render_pass",
                      "set_pipeline", "draw">>]
    ELSE [result |-> Ok,
          calls |-> <<"get_current_texture", "create_view",
                      "create_command_encoder", "begin_render_pass",
                      "set_pipeline", "draw", "finish", "submit",
                      "present">>]

\* line 191: poll_iter is exhausted, render is called; `?` returns its error
Render ==
    /\ pc = "poll"
    /\ pending = <<>>
    /\ frames < MaxFrames
    /\ frames' = frames + 1
    /\ \E acquire \in AcquireOutcomes(surface) :
        LET r == render(surface, device, queue, pipeline, acquire)
        IN /\ gpu_calls' = r.calls
           /\ render_result' = r.result
           /\ IF r.result = Ok
              THEN UNCHANGED <<pc, run_result>>
              ELSE IF IsPanic(r.result)
              THEN /\ pc' = "panicked"
                   /\ UNCHANGED run_result
              ELSE RunReturn(r.result)
    /\ UNCHANGED <<build, fields, locals, executed, init_result, exit_code,
                   evq, surfaces_created>>

\* ------------------------------------------------------- specification
Next ==
    \/ InitSdl \/ InitVideo \/ InitEventPump \/ InitWindow \/ InitSurface
    \/ InitAdapter \/ InitCapability \/ InitSelectFormat \/ InitDevice
    \/ InitConfig \/ InitConfigure \/ InitPipeline
    \/ SdlMainAfterInit \/ SdlMainAfterRun \/ MainNew \/ MainRun
    \/ RunStart \/ Deliver
    \/ HandleQuit \/ HandleEscape \/ HandleForeground \/ HandleOther
    \/ Render

Spec == Init /\ [][Next]_vars

\* ----------------------------------------------------------- properties
Last(q) == q[Len(q)]

Count(x, q) == Cardinality({i \in 1..Len(q) : q[i] = x})

IndexOf(x, q) == CHOOSE i \in 1..Len(q) : q[i] = x

StepOk(name) ==
    \E i \in 1..Len(executed) : executed[i].step = name /\ executed[i].ok

\* the step of the frame loop that matches on event e
EventStep(e) ==
    /\ pc = "poll"
    /\ pending # <<>>
    /\ Head(pending) = e
    /\ processed' = Append(processed, e)

\* C1: the entry point exits with 1 exactly when bootstrap returned an
\* error, with 2 exactly when bootstrap succeeded and the frame loop returned
\* an error, with 0 exactly when both returned Ok; after a failed bootstrap
\* the frame loop is never started (no event matched, no render call).
C1_ExitCodes ==
    /\ exit_code = Some(1) <=> (pc = "exited" /\ IsErr(init_result))
    /\ exit_code = Some(2) <=>
          (pc = "exited" /\ init_result = Ok /\ IsErr(run_result))
    /\ exit_code = Some(0) <=>
          (pc = "exited" /\ init_result = Ok /\ run_result = Ok)
    /\ IsErr(init_result) =>
          /\ pc \in {"init_returned", "exited"}
          /\ run_result = NoResult
          /\ processed = <<>>
          /\ frames = 0

C1_Witness ==
    /\ entry = "SDL_main"
    /\ exit_code = Some(2)
    /\ frames >= 1
    /\ IsErr(render_result)

\* C2: once the frame loop has matched a quit event, no further render
\* call is made and no further event is matched, whatever is still queued.
C2_QuitStopsLoop ==
    [][(processed # <<>> /\ Last(processed) = "Quit")
         => (frames' = frames /\ processed' = processed
               /\ pc' \in {"run_returned", "exited"})]_vars

C2_Witness ==
    /\ processed # <<>>
    /\ Last(processed) = "Quit"
    /\ Len(processed) >= 2
    /\ pending # <<>>
    /\ frames >= 1
    /\ pc = "exited"

\* C3: a render call that returned Ok made exactly one submit and exactly
\* one present, the submit first; a render call that failed to acquire the
\* surface image made neither.
C3_SubmitThenPresent ==
    /\ render_result = Ok =>
          /\ Count("submit", gpu_calls) = 1
          /\ Count("present", gpu_calls) = 1
          /\ IndexOf("submit", gpu_calls) < IndexOf("present", gpu_calls)
    /\ (IsErr(render_result) \/ render_result = WgpuPanic) =>
          /\ Count("submit", gpu_calls) = 0
          /\ Count("present", gpu_calls) = 0

C3_Witness ==
    /\ render_result = Ok
    /\ frames = MaxFrames
    /\ Count("submit", gpu_calls) = 1

\* C4: the surface format chosen by init is the first sRGB format of the
\* reported list when the list holds an sRGB format, and the first format of
\* the list otherwise.
C4_FirstSrgbOrFirst ==
    (surface_capabilities # None /\ surface_format # None) =>
        LET fs == unwrap(surface_capabilities)
            chosen == unwrap(surface_format)
        IN IF \E i \in 1..Len(fs) : is_srgb(fs[i])
           THEN \E i \in 1..Len(fs) :
                   /\ is_srgb(fs[i])
                   /\ \A j \in 1..(i - 1) : ~is_srgb(fs[j])
                   /\ chosen = fs[i]
           ELSE chosen = fs[1]

C4_Witness ==
    /\ surface_capabilities # None
    /\ surface_format # None
    /\ Len(unwrap(surface_capabilities)) >= 2
    /\ ~is_srgb(unwrap(surface_capabilities)[1])
    /\ is_srgb(unwrap(surface_format))

\* C5: a foreground event for which run calls init_surface leaves the
\* pipeline, device, queue, surface format and surface configuration
\* unchanged, and when init_surface succeeds the surface binding is replaced
\* by a surface that did not exist before.
C5_ResumeKeepsPipeline ==
    [][(android /\ EventStep("AppWillEnterForeground") /\ wgpu_intance # None)
         => /\ pipeline' = pipeline
            /\ device' = device
            /\ queue' = queue
            /\ surface_format' = surface_format
            /\ config' = config
            /\ ~IsErr(run_result') =>
                  /\ surface' # None
                  /\ surface' # surface
                  /\ unwrap(surface').id > surfaces_created]_vars

C5_Witness ==
    /\ android
    /\ processed # <<>>
    /\ Last(processed) = "AppWillEnterForeground"
    /\ pc = "poll"
    /\ surface # None
    /\ unwrap(surface).id = 2
    /\ pipeline # None

\* C6: a setup step of init that fails is the last setup step init
\* executes.
C6_FailFast ==
    \A i \in 1..Len(executed) : ~executed[i].ok => i = Len(executed)

\* C7 as stated: when init returns an error every field of the context is
\* the same as before init was called.
C7_NothingRetained ==
    (entry = "SDL_main" /\ IsErr(init_result)) =>
        /\ event_pump = None
        /\ window = None
        /\ window_width = 0
        /\ window_height = 0
        /\ surface = None
        /\ surface_format = None
        /\ device = None
        /\ queue = None
        /\ config = None
        /\ pipeline = None

\* C7 amended: when init returns an error the device, queue, surface
\* configuration and pipeline are the same as before init was called, and
\* each of the event pump, window, window size, surface and surface format
\* holds a value exactly when the setup step that assigns it completed
\* before the failing step.
C7_OnlyCompletedStepsRetained ==
    (entry = "SDL_main" /\ IsErr(init_result)) =>
        /\ device = None
        /\ queue = None
        /\ config = None
        /\ pipeline = None
        /\ event_pump # None <=> StepOk("event_pump")
        /\ window # None <=> StepOk("window")
        /\ (window_width # 0 /\ window_height # 0) <=> StepOk("window")
        /\ (window_width = 0 /\ window_height = 0) <=> ~StepOk("window")
        /\ surface # None <=> StepOk("init_surface")
        /\ surface_format # None <=> StepOk("select_format")

C7_Witness ==
    /\ entry = "SDL_main"
    /\ IsErr(init_result)
    /\ event_pump # None
    /\ window # None
    /\ surface # None
    /\ surface_format # None

\* C8 as stated: after the frame loop matches an event that is neither a
\* quit nor an escape-key-down event, the loop is still running.
C8_OnlyQuitOrEscapeLeave ==
    [][\A e \in Events \ {"Quit", "KeyDownEscape"} :
          EventStep(e) => (pc' = "poll" /\ run_result' = NoResult)]_vars

\* C8 amended: run returns Ok only by matching a quit event or, in a
\* non-android debug build, an escape-key-down event; after any other event
\* the loop is still running, except that on android a foreground event
\* whose surface re-creation fails makes run return that error with the
\* surface binding untouched.
C8_LoopLeftOnlyByQuitEscapeOrFailedResume ==
    [][/\ (run_result = NoResult /\ run_result' = Ok /\ entry = "SDL_main")
            => \/ EventStep("Quit")
               \/ (EventStep("KeyDownEscape") /\ ~android /\ debug)
       /\ EventStep("Quit") => (pc' = "run_returned" /\ run_result' = Ok)
       /\ (EventStep("KeyDownEscape") /\ ~(~android /\ debug))
            => (pc' = "poll" /\ run_result' = NoResult)
       /\ EventStep("Other") => (pc' = "poll" /\ run_result' = NoResult)
       /\ (EventStep("AppWillEnterForeground") /\ ~android)
            => (pc' = "poll" /\ run_result' = NoResult)
       /\ (EventStep("AppWillEnterForeground") /\ android)
            => \/ (pc' = "poll" /\ run_result' = NoResult)
               \/ (pc' = "run_returned" /\ IsErr(run_result')
                     /\ surface' = surface)]_vars

C8_Witness ==
    /\ ~android
    /\ ~debug
    /\ pc = "poll"
    /\ Len(processed) = 3
    /\ \A e \in {"KeyDownEscape", "AppWillEnterForeground", "Other"} :
          Count(e, processed) = 1
    /\ frames >= 1

\* C9: whenever the frame loop is about to poll and render, the surface
\* render acquires from has been configured since it was created.
C9_SurfaceConfiguredAtRender ==
    pc = "poll" => (surface # None /\ unwrap(surface).configured)

\* C10: in an execution from SDL_main, whenever the frame loop is running
\* the surface, device, queue and pipeline are all set, and no render call
\* has panicked on an unwrap.
C10_RenderUnwrapsSafe ==
    /\ (entry = "SDL_main" /\ pc \in {"run", "poll"}) =>
          /\ surface # None
          /\ device # None
          /\ queue # None
          /\ pipeline # None
          /\ event_pump # None
    /\ render_result # UnwrapPanic

C10_Witness ==
    /\ entry = "SDL_main"
    /\ android
    /\ pc = "poll"
    /\ frames >= 1
    /\ Len(processed) >= 2
    /\ Count("AppWillEnterForeground", processed) >= 1

====
